---- MODULE Spec2Model ----
(***************************************************************************)
(* The document-cleaning pipeline of knowledge_engine.rag.cleaning:        *)
(* clean_page_text, remove_headers_footers, join_wrapped_lines,            *)
(* load_pdf_text_by_page, clean_pdf_to_pages and the doc_clean_cli main.   *)
(* A Python str is a sequence of one-character strings.                    *)
(***************************************************************************)
EXTENDS Integers, Sequences, FiniteSets, TLC

VARIABLES
    pc,             \* position of the running operation
    text,           \* the page text handed to a cleaning step
    cfg,            \* the CleanConfig in use
    cleaned,        \* clean_page_text(text)
    recleaned,      \* clean_page_text(cleaned)
    stripped,       \* remove_headers_footers(text, cfg)
    lines,          \* join_wrapped_lines: text.split("\n")
    out,            \* join_wrapped_lines: the output list
    i,              \* join_wrapped_lines: the cursor (0-based)
    blocks,         \* history: for each element of out, <<first, last>> input index
    joined,         \* join_wrapped_lines(text)
    pdf_file,       \* the file system's view of pdf_path, and the document in it
    pdf,            \* load_pdf_text_by_page: the fitz handle
    open_calls,     \* history: how many times fitz.open was called
    pages,          \* load_pdf_text_by_page: pages extracted so far
    raw_pages,      \* clean_pdf_to_pages: the list load_pdf_text_by_page returned
    cleaned_pages,  \* clean_pdf_to_pages: the list being built
    result,         \* main: the value clean_pdf_to_pages returned, once it has
    exc,            \* the exception in flight, or "None"
    out_file        \* the sink's artifact: whether it exists, and the pages in it

vars == <<pc, text, cfg, cleaned, recleaned, stripped, lines, out, i, blocks, joined,
          pdf_file, pdf, open_calls, pages, raw_pages, cleaned_pages, result, exc, out_file>>

----------------------------------------------------------------------------
(* Bounds of the model *)

MaxTextLen == 6
MaxLines == 3
MaxStripLines == 4
MaxScan == 3
MaxPages == 2

----------------------------------------------------------------------------
(* Characters and the str methods the code uses *)

Whitespace == {" ", "\t", "\n", "\r"}

LowerChars == {"a","b","c","d","e","f","g","h","i","j","k","l","m",
               "n","o","p","q","r","s","t","u","v","w","x","y","z"}

UpperChars == {"A","B","C","D","E","F","G","H","I","J","K","L","M",
               "N","O","P","Q","R","S","T","U","V","W","X","Y","Z"}

DigitChars == {"0","1","2","3","4","5","6","7","8","9"}

LowerOf == [c \in UpperChars |->
              CASE c = "A" -> "a" [] c = "B" -> "b" [] c = "C" -> "c" [] c = "D" -> "d"
                [] c = "E" -> "e" [] c = "F" -> "f" [] c = "G" -> "g" [] c = "H" -> "h"
                [] c = "I" -> "i" [] c = "J" -> "j" [] c = "K" -> "k" [] c = "L" -> "l"
                [] c = "M" -> "m" [] c = "N" -> "n" [] c = "O" -> "o" [] c = "P" -> "p"
                [] c = "Q" -> "q" [] c = "R" -> "r" [] c = "S" -> "s" [] c = "T" -> "t"
                [] c = "U" -> "u" [] c = "V" -> "v" [] c = "W" -> "w" [] c = "X" -> "x"
                [] c = "Y" -> "y" [] c = "Z" -> "z"]

\* s.lower()
lower(s) == [k \in 1..Len(s) |-> IF s[k] \in UpperChars THEN LowerOf[s[k]] ELSE s[k]]

\* s.rstrip()
RECURSIVE rstrip(_)
rstrip(s) ==
    IF s = <<>> THEN <<>>
    ELSE IF s[Len(s)] \in Whitespace THEN rstrip(SubSeq(s, 1, Len(s) - 1))
    ELSE s

\* s.lstrip()
RECURSIVE lstrip(_)
lstrip(s) ==
    IF s = <<>> THEN <<>>
    ELSE IF s[1] \in Whitespace THEN lstrip(Tail(s))
    ELSE s

\* s.strip()
strip(s) == lstrip(rstrip(s))

\* s.startswith(p)
startswith(s, p) == Len(p) <= Len(s) /\ SubSeq(s, 1, Len(p)) = p

\* s.endswith(p)
endswith(s, p) == Len(p) <= Len(s) /\ SubSeq(s, Len(s) - Len(p) + 1, Len(s)) = p

\* s.isdigit()
isdigit(s) == s /= <<>> /\ \A k \in 1..Len(s) : s[k] \in DigitChars

\* s.istitle(): uppercase only after uncased, lowercase only after cased,
\* and at least one cased character
RECURSIVE istitle_from(_, _, _, _)
istitle_from(s, k, previous_is_cased, cased) ==
    IF k > Len(s) THEN cased
    ELSE IF s[k] \in UpperChars
         THEN IF previous_is_cased THEN FALSE ELSE istitle_from(s, k + 1, TRUE, TRUE)
    ELSE IF s[k] \in LowerChars
         THEN IF ~previous_is_cased THEN FALSE ELSE istitle_from(s, k + 1, TRUE, TRUE)
    ELSE istitle_from(s, k + 1, FALSE, cased)

istitle(s) == istitle_from(s, 1, FALSE, FALSE)

\* s.replace(old, new) for a one- or two-character old and a one-character new
RECURSIVE replace(_, _, _)
replace(s, old, new) ==
    IF s = <<>> THEN <<>>
    ELSE IF startswith(s, old)
         THEN new \o replace(SubSeq(s, Len(old) + 1, Len(s)), old, new)
    ELSE <<s[1]>> \o replace(Tail(s), old, new)

\* s.split("\n"): always at least one element
RECURSIVE split_from(_, _)
split_from(s, acc) ==
    IF s = <<>> THEN <<acc>>
    ELSE IF s[1] = "\n" THEN <<acc>> \o split_from(Tail(s), <<>>)
    ELSE split_from(Tail(s), Append(acc, s[1]))

split(s) == split_from(s, <<>>)

\* "\n".join(ls)
RECURSIVE join(_)
join(ls) ==
    IF ls = <<>> THEN <<>>
    ELSE IF Len(ls) = 1 THEN ls[1]
    ELSE ls[1] \o <<"\n">> \o join(Tail(ls))

----------------------------------------------------------------------------
(* clean_page_text *)

\* line 70: the three chained replacements
NormalizeEndings(s) ==
    replace(replace(replace(s, <<"\r", "\n">>, <<"\n">>), <<"\r">>, <<"\n">>),
            <<"\t">>, <<" ">>)

\* a mutation of line 73: only one trailing whitespace character is trimmed
TrimLinesOneChar(ls) ==
    [k \in 1..Len(ls) |->
        IF ls[k] /= <<>> /\ ls[k][Len(ls[k])] \in Whitespace
        THEN SubSeq(ls[k], 1, Len(ls[k]) - 1) ELSE ls[k]]

\* line 73: [ln.rstrip() for ln in ...]
TrimLines(ls) == [k \in 1..Len(ls) |-> rstrip(ls[k])]

\* a mutation of lines 79-84: prev_blank is updated on the skipped line too,
\* as if the flag were cleared after a skip
RECURSIVE CollapseBlankToggle(_, _)
CollapseBlankToggle(ls, prev_blank) ==
    IF ls = <<>> THEN <<>>
    ELSE LET is_blank == (strip(ls[1]) = <<>>) IN
         IF is_blank /\ prev_blank THEN CollapseBlankToggle(Tail(ls), FALSE)
         ELSE <<ls[1]>> \o CollapseBlankToggle(Tail(ls), is_blank)

\* lines 77-84: the loop over cleaned.split("\n") with the prev_blank flag
RECURSIVE CollapseBlank(_, _)
CollapseBlank(ls, prev_blank) ==
    IF ls = <<>> THEN <<>>
    ELSE LET is_blank == (strip(ls[1]) = <<>>) IN
         IF is_blank /\ prev_blank THEN CollapseBlank(Tail(ls), prev_blank)
         ELSE <<ls[1]>> \o CollapseBlank(Tail(ls), is_blank)

clean_page_text(s) ==
    LET trimmed == join(TrimLines(split(NormalizeEndings(s))))
    IN  join(CollapseBlank(split(trimmed), FALSE))

----------------------------------------------------------------------------
(* CleanConfig and is_header_or_footer *)

DefaultHeaderScanLines == 10
DefaultFooterScanLines == 3

DefaultExact ==
    << <<"F","i","n","a","n","c","i","a","l"," ","C","o","n","d","u","c","t"," ",
         "A","u","t","h","o","r","i","t","y">>,
       <<"F","G","2","2","/","5">> >>

DefaultPrefixes ==
    << <<"F","G","2","2","/","5"," ","F","i","n","a","l"," ","n","o","n","-",
         "H","a","n","d","b","o","o","k"," ","G","u","i","d","a","n","c","e">>,
       <<"C","h","a","p","t","e","r">> >>

\* CleanConfig(header_scan_lines=h, footer_scan_lines=f)
CleanConfig(h, f) ==
    [header_scan_lines |-> h, footer_scan_lines |-> f,
     header_footer_exact |-> DefaultExact,
     header_footer_prefixes |-> DefaultPrefixes]

\* CleanConfig()
DefaultConfig == CleanConfig(DefaultHeaderScanLines, DefaultFooterScanLines)

chapter == <<"c","h","a","p","t","e","r">>

is_header_or_footer(line, c) ==
    LET s == strip(line)
        s_lower == lower(s)
    IN  IF s = <<>> THEN FALSE
        ELSE IF isdigit(s) /\ Len(s) <= 3 THEN TRUE
        ELSE IF \E k \in 1..Len(c.header_footer_exact) : c.header_footer_exact[k] = s
             THEN TRUE
        ELSE \E k \in 1..Len(c.header_footer_prefixes) :
                LET pref == c.header_footer_prefixes[k] IN
                IF lower(pref) = chapter THEN startswith(s_lower, chapter)
                ELSE startswith(s, pref)

----------------------------------------------------------------------------
(* remove_headers_footers *)

\* a mutation of line 100: the footer zone is one line short (i > len - f)
InFooterZoneShort(idx, n, c) == idx > n - c.footer_scan_lines

\* line 98: i < cfg.header_scan_lines
InHeaderZone(idx, c) == idx < c.header_scan_lines

\* line 100: i >= len(lines) - cfg.footer_scan_lines
InFooterZone(idx, n, c) == idx >= n - c.footer_scan_lines

\* lines 97-102: the loop over enumerate(lines), idx 0-based
RECURSIVE StripLoop(_, _, _)
StripLoop(ls, idx, c) ==
    IF idx >= Len(ls) THEN <<>>
    ELSE LET line == ls[idx + 1] IN
         IF InHeaderZone(idx, c) /\ is_header_or_footer(line, c)
         THEN StripLoop(ls, idx + 1, c)
         ELSE IF InFooterZone(idx, Len(ls), c) /\ is_header_or_footer(line, c)
         THEN StripLoop(ls, idx + 1, c)
         ELSE <<line>> \o StripLoop(ls, idx + 1, c)

remove_headers_footers(s, c) == join(StripLoop(split(s), 0, c))

----------------------------------------------------------------------------
(* join_wrapped_lines: the rule tables and the loop body *)

\* line 116; the typographic quotes are the characters "rdquo" and "rsquo"
punct_end == {".", "!", "?", ";", ":", "rdquo", "\"", "rsquo", "'"}

\* line 117; the bullet, en dash and em dash are "bull", "ndash", "mdash"
bullet_prefixes == {"bull", "-", "*", "ndash", "mdash"}

\* line 118: ^\d+(\.\d+)*$ matched left to right; in_digits says that the
\* character before position k is a digit
RECURSIVE section_re_from(_, _, _)
section_re_from(s, k, in_digits) ==
    IF k > Len(s) THEN in_digits
    ELSE IF s[k] \in DigitChars THEN section_re_from(s, k + 1, TRUE)
    ELSE IF s[k] = "." /\ in_digits THEN section_re_from(s, k + 1, FALSE)
    ELSE FALSE

section_re_match(s) == section_re_from(s, 1, FALSE)

\* a mutation of lines 124-126: only the first column is looked at (no lstrip)
is_bullet_no_lstrip(line) == line /= <<>> /\ line[1] \in bullet_prefixes

is_bullet(line) ==
    LET s == lstrip(line) IN s /= <<>> /\ s[1] \in bullet_prefixes

is_section_marker(line) == section_re_match(strip(line))

\* line 163
IsShortTitle(cur_s) == Len(cur_s) <= 40 /\ istitle(cur_s)

\* a mutation of line 168: the test is made on the untrimmed line
EndsSentenceUntrimmed(cur) == cur /= <<>> /\ cur[Len(cur)] \in punct_end

\* line 168: cur.rstrip().endswith(punct_end)
EndsSentence(cur) == LET r == rstrip(cur) IN r /= <<>> /\ r[Len(r)] \in punct_end

\* lines 174 and 181: nxt_s and nxt_s[0].islower()
StartsLower(nxt_s) == nxt_s /= <<>> /\ nxt_s[1] \in LowerChars

\* line 174: cur.rstrip().endswith("-")
EndsHyphen(cur) == endswith(rstrip(cur), <<"-">>)

\* a mutation of line 175: the hyphen is kept
HyphenMergedKeepHyphen(cur, nxt) == rstrip(cur) \o lstrip(nxt)

\* line 175: cur.rstrip()[:-1] + nxt.lstrip()
HyphenMerged(cur, nxt) ==
    LET r == rstrip(cur) IN SubSeq(r, 1, Len(r) - 1) \o lstrip(nxt)

\* line 182: cur.rstrip() + " " + nxt.lstrip()
ContinueMerged(cur, nxt) == rstrip(cur) \o <<" ">> \o lstrip(nxt)

\* the branch of the loop body (lines 136-188) taken with the cursor at idx
JoinRule(ls, idx) ==
    LET cur == ls[idx + 1]
        cur_s == strip(cur)
    IN  IF cur_s = <<>> THEN "blank"
        ELSE IF idx = Len(ls) - 1 THEN "last"
        ELSE LET nxt == ls[idx + 2]
                 nxt_s == strip(nxt)
             IN  IF nxt_s = <<>> THEN "next_blank"
                 ELSE IF is_bullet(cur) \/ is_bullet(nxt) THEN "bullet"
                 ELSE IF is_section_marker(cur) \/ is_section_marker(nxt) THEN "section"
                 ELSE IF IsShortTitle(cur_s) THEN "title"
                 ELSE IF EndsSentence(cur) THEN "punct"
                 ELSE IF EndsHyphen(cur) /\ StartsLower(nxt_s) THEN "hyphen"
                 ELSE IF StartsLower(nxt_s) THEN "continue"
                 ELSE "default"

\* what the branch appends to out
JoinEmit(ls, idx) ==
    LET rule == JoinRule(ls, idx)
        cur == ls[idx + 1]
    IN  IF rule = "blank" THEN <<>>
        ELSE IF rule = "hyphen" THEN HyphenMerged(cur, ls[idx + 2])
        ELSE IF rule = "continue" THEN ContinueMerged(cur, ls[idx + 2])
        ELSE rstrip(cur)

\* a mutation of lines 177 and 184: the cursor advances by one after a merge
JoinAdvanceByOne(ls, idx) == 1

\* how far the branch moves the cursor (i += 1 or i += 2)
JoinAdvance(ls, idx) ==
    IF JoinRule(ls, idx) \in {"hyphen", "continue"} THEN 2 ELSE 1

\* lines 132-188 run from cursor idx to the end of the loop
RECURSIVE JoinLoop(_, _)
JoinLoop(ls, idx) ==
    IF idx >= Len(ls) THEN <<>>
    ELSE IF JoinRule(ls, idx) = "last" THEN <<JoinEmit(ls, idx)>>
    ELSE <<JoinEmit(ls, idx)>> \o JoinLoop(ls, idx + JoinAdvance(ls, idx))

join_wrapped_lines(s) == join(JoinLoop(split(s), 0))

----------------------------------------------------------------------------
(* Values of the variables an operation does not use *)

NoFile == [is_file |-> FALSE, suffix |-> <<>>, st_size |-> 0, opens |-> FALSE,
           doc |-> <<>>, bad_page |-> 0]

IdleCleanVars == cleaned = <<>> /\ recleaned = <<>>
IdleStripVars == stripped = <<>>
IdleJoinVars == lines = <<>> /\ out = <<>> /\ i = 0 /\ blocks = <<>> /\ joined = <<>>
IdlePipeVars ==
    /\ pdf_file = NoFile /\ pdf = "None" /\ open_calls = 0 /\ pages = <<>> /\ raw_pages = <<>>
    /\ cleaned_pages = <<>> /\ result = [returned |-> FALSE, pages |-> <<>>]
    /\ exc = "None" /\ out_file = [exists |-> FALSE, pages |-> <<>>]

cleanVars == <<cleaned, recleaned>>
stripVars == <<stripped>>
joinVars == <<lines, out, i, blocks, joined>>
pipeVars == <<pdf_file, pdf, open_calls, pages, raw_pages, cleaned_pages, result, exc, out_file>>

\* all sequences over S of length lo..hi
SeqsOf(S, lo, hi) == UNION {[1..n -> S] : n \in lo..hi}

----------------------------------------------------------------------------
(* SpecClean: clean_page_text applied to a page text, then to its own output *)

CleanAlphabet == {"\r", "\n", "\t", " ", "a"}

InitClean ==
    /\ pc = "clean_start"
    /\ text \in SeqsOf(CleanAlphabet, 0, MaxTextLen)
    /\ cfg = DefaultConfig
    /\ IdleCleanVars /\ IdleStripVars /\ IdleJoinVars /\ IdlePipeVars

CleanOnce ==
    /\ pc = "clean_start"
    /\ cleaned' = clean_page_text(text)
    /\ pc' = "clean_once"
    /\ UNCHANGED <<text, cfg, recleaned, stripVars, joinVars, pipeVars>>

CleanTwice ==
    /\ pc = "clean_once"
    /\ recleaned' = clean_page_text(cleaned)
    /\ pc' = "clean_twice"
    /\ UNCHANGED <<text, cfg, cleaned, stripVars, joinVars, pipeVars>>

NextClean == CleanOnce \/ CleanTwice

SpecClean == InitClean /\ [][NextClean]_vars

----------------------------------------------------------------------------
(* SpecStrip: remove_headers_footers applied to a page under a config *)

StripVocab ==
    { <<>>,
      <<"F","G","2","2","/","5">>,
      <<"7">>,
      <<"C","H","A","P","T","E","R"," ","2">>,
      <<"a","b">> }

InitStrip ==
    /\ pc = "strip_start"
    /\ \E ls \in SeqsOf(StripVocab, 1, MaxStripLines) : text = join(ls)
    /\ \E h \in 0..MaxScan, f \in 0..MaxScan : cfg = CleanConfig(h, f)
    /\ IdleCleanVars /\ IdleStripVars /\ IdleJoinVars /\ IdlePipeVars

Strip ==
    /\ pc = "strip_start"
    /\ stripped' = remove_headers_footers(text, cfg)
    /\ pc' = "strip_done"
    /\ UNCHANGED <<text, cfg, cleanVars, joinVars, pipeVars>>

NextStrip == Strip

SpecStrip == InitStrip /\ [][NextStrip]_vars

----------------------------------------------------------------------------
(* SpecJoin: the loop of join_wrapped_lines, one iteration per step *)

JoinVocab ==
    { <<>>,
      <<" ">>,
      <<"i","n","f","o","r","m","a","-">>,
      <<"t","i","o","n"," ","h","a","p","p","e","n","e","d",".">>,
      <<" ","-"," ","i","t">>,
      <<"3",".","2">>,
      <<"I","n","t","r","o">>,
      <<"a","n","d"," ","s","o">>,
      <<"T","h","e"," ","c","a","t">>,
      <<"e","n","d","."," ">> }

InitJoin ==
    /\ pc = "join_start"
    /\ \E ls \in SeqsOf(JoinVocab, 1, MaxLines) : text = join(ls)
    /\ cfg = DefaultConfig
    /\ IdleCleanVars /\ IdleStripVars /\ IdleJoinVars /\ IdlePipeVars

\* lines 120-122
JoinBegin ==
    /\ pc = "join_start"
    /\ lines' = split(text)
    /\ out' = <<>>
    /\ i' = 0
    /\ pc' = "join_loop"
    /\ UNCHANGED <<text, cfg, blocks, joined, cleanVars, stripVars, pipeVars>>

\* the loop condition holds and the body takes the branch `rule`
JoinTakes(rule) ==
    /\ pc = "join_loop"
    /\ i < Len(lines)
    /\ JoinRule(lines, i) = rule

\* the branch's append, and its `i += ..; continue` (or `break` on the last line)
JoinBranch(rule) ==
    /\ out' = Append(out, JoinEmit(lines, i))
    /\ blocks' = Append(blocks, <<i, IF rule \in {"hyphen", "continue"} THEN i + 1 ELSE i>>)
    /\ IF rule = "last"
       THEN i' = i /\ pc' = "join_return"
       ELSE i' = i + JoinAdvance(lines, i) /\ pc' = "join_loop"
    /\ UNCHANGED <<text, cfg, lines, joined, cleanVars, stripVars, pipeVars>>

\* lines 136-139
JoinBlank == JoinTakes("blank") /\ JoinBranch("blank")
\* lines 141-143
JoinLast == JoinTakes("last") /\ JoinBranch("last")
\* lines 148-151
JoinNextBlank == JoinTakes("next_blank") /\ JoinBranch("next_blank")
\* lines 153-156
JoinBullet == JoinTakes("bullet") /\ JoinBranch("bullet")
\* lines 158-161
JoinSection == JoinTakes("section") /\ JoinBranch("section")
\* lines 163-166
JoinTitle == JoinTakes("title") /\ JoinBranch("title")
\* lines 168-171
JoinPunct == JoinTakes("punct") /\ JoinBranch("punct")
\* lines 174-178
JoinHyphen == JoinTakes("hyphen") /\ JoinBranch("hyphen")
\* lines 181-185
JoinContinue == JoinTakes("continue") /\ JoinBranch("continue")
\* lines 187-188
JoinDefault == JoinTakes("default") /\ JoinBranch("default")

\* line 132: the loop condition fails
JoinLoopEnd ==
    /\ pc = "join_loop"
    /\ i >= Len(lines)
    /\ pc' = "join_return"
    /\ UNCHANGED <<text, cfg, joinVars, cleanVars, stripVars, pipeVars>>

\* line 190
JoinReturn ==
    /\ pc = "join_return"
    /\ joined' = join(out)
    /\ pc' = "join_done"
    /\ UNCHANGED <<text, cfg, lines, out, i, blocks, cleanVars, stripVars, pipeVars>>

NextJoin ==
    \/ JoinBegin
    \/ JoinBlank
    \/ JoinLast
    \/ JoinNextBlank
    \/ JoinBullet
    \/ JoinSection
    \/ JoinTitle
    \/ JoinPunct
    \/ JoinHyphen
    \/ JoinContinue
    \/ JoinDefault
    \/ JoinLoopEnd
    \/ JoinReturn

SpecJoin == InitJoin /\ [][NextJoin]_vars

\* the interpreter runs the loop to its end
SpecJoinLive == SpecJoin /\ WF_vars(NextJoin)

----------------------------------------------------------------------------
(* Spec: a run of clean_pdf_to_pages(pdf_path, cfg) followed by             *)
(* save_cleaned_pages_as_text, as doc_clean_cli.main makes it               *)

\* the scenario page: FG22/5, Chapter 1, (blank), This is informa-,
\* tion about the policy., 1
ScenarioPage ==
    <<"F","G","2","2","/","5","\n","C","h","a","p","t","e","r"," ","1","\n","\n",
      "T","h","i","s"," ","i","s"," ","i","n","f","o","r","m","a","-","\n",
      "t","i","o","n"," ","a","b","o","u","t"," ","t","h","e"," ",
      "p","o","l","i","c","y",".","\n","1">>

RawPageVocab ==
    { ScenarioPage,
      <<"a","\t","b"," ","\r","\n","\r","\r","c","d",".","\n","1","2">>,
      <<"7","\n","O","n","e"," ","t","w","o","\n","t","h","r","e","e">> }

Suffixes == { <<".","p","d","f">>, <<".","P","D","F">>, <<".","t","x","t">> }

\* cfg=None
NoneConfig == [none |-> TRUE]

\* the files pdf_path can name: a path that is no regular file has no size and
\* no content, an empty file cannot be opened, and a file that cannot be
\* opened has no pages; bad_page = p > 0: get_text() of page p raises
PdfFiles ==
    { f \in [is_file : BOOLEAN, suffix : Suffixes, st_size : {0, 1}, opens : BOOLEAN,
             doc : SeqsOf(RawPageVocab, 0, MaxPages), bad_page : 0..MaxPages] :
        /\ ~f.is_file => f.st_size = 0
        /\ f.st_size = 0 => ~f.opens
        /\ ~f.opens => f.doc = <<>>
        /\ f.bad_page <= Len(f.doc) }

Init ==
    /\ pc = "clean_pdf_to_pages"
    /\ text = <<>>
    /\ cfg \in {NoneConfig, DefaultConfig, CleanConfig(2, 1)}
    /\ pdf_file \in PdfFiles
    /\ pdf = "None" /\ open_calls = 0 /\ pages = <<>> /\ raw_pages = <<>>
    /\ cleaned_pages = <<>> /\ result = [returned |-> FALSE, pages |-> <<>>]
    /\ exc = "None" /\ out_file = [exists |-> FALSE, pages |-> <<>>]
    /\ IdleCleanVars /\ IdleStripVars /\ IdleJoinVars

\* pdf_text_extractor.py lines 232-235: default the config, call the Page Source
EnterCleanPdf ==
    /\ pc = "clean_pdf_to_pages"
    /\ cfg' = IF cfg = NoneConfig THEN DefaultConfig ELSE cfg
    /\ pc' = "load_is_file"
    /\ UNCHANGED <<text, cleanVars, stripVars, joinVars, pipeVars>>

\* lines 201-202
LoadCheckIsFile ==
    /\ pc = "load_is_file"
    /\ IF ~pdf_file.is_file
       THEN exc' = "FileNotFoundError" /\ pc' = "load_raised"
       ELSE exc' = exc /\ pc' = "load_suffix"
    /\ UNCHANGED <<text, cfg, cleanVars, stripVars, joinVars, pdf_file, pdf, open_calls,
                   pages, raw_pages, cleaned_pages, result, out_file>>

\* lines 204-205
LoadCheckSuffix ==
    /\ pc = "load_suffix"
    /\ IF lower(pdf_file.suffix) /= <<".","p","d","f">>
       THEN exc' = "ValueError: expected a .pdf file" /\ pc' = "load_raised"
       ELSE exc' = exc /\ pc' = "load_size"
    /\ UNCHANGED <<text, cfg, cleanVars, stripVars, joinVars, pdf_file, pdf, open_calls,
                   pages, raw_pages, cleaned_pages, result, out_file>>

\* lines 207-208
LoadCheckSize ==
    /\ pc = "load_size"
    /\ IF pdf_file.st_size = 0
       THEN exc' = "ValueError: PDF is empty" /\ pc' = "load_raised"
       ELSE exc' = exc /\ pc' = "load_open"
    /\ UNCHANGED <<text, cfg, cleanVars, stripVars, joinVars, pdf_file, pdf, open_calls,
                   pages, raw_pages, cleaned_pages, result, out_file>>

\* lines 210-214: pages = [], pdf = None, then fitz.open inside the try
LoadOpen ==
    /\ pc = "load_open"
    /\ pages' = <<>>
    /\ open_calls' = open_calls + 1
    /\ IF pdf_file.opens
       THEN pdf' = "open" /\ exc' = exc /\ pc' = "load_read"
       ELSE pdf' = "None" /\ exc' = "FileDataError" /\ pc' = "load_finally"
    /\ UNCHANGED <<text, cfg, cleanVars, stripVars, joinVars, pdf_file,
                   raw_pages, cleaned_pages, result, out_file>>

\* lines 217-220: one iteration of the extraction loop
LoadReadPage ==
    /\ pc = "load_read"
    /\ Len(pages) < Len(pdf_file.doc)
    /\ IF pdf_file.bad_page = Len(pages) + 1
       THEN pages' = pages /\ exc' = "RuntimeError: get_text" /\ pc' = "load_finally"
       ELSE pages' = Append(pages, pdf_file.doc[Len(pages) + 1]) /\ exc' = exc /\ pc' = pc
    /\ UNCHANGED <<text, cfg, cleanVars, stripVars, joinVars, pdf_file, pdf, open_calls,
                   raw_pages, cleaned_pages, result, out_file>>

\* line 222: return pages, which enters the finally block
LoadReturn ==
    /\ pc = "load_read"
    /\ Len(pages) = Len(pdf_file.doc)
    /\ pc' = "load_finally"
    /\ UNCHANGED <<text, cfg, cleanVars, stripVars, joinVars, pipeVars>>

\* a mutation of lines 224-226: the handle is closed on the return path only
LoadFinallyCloseOnReturnOnly ==
    /\ pc = "load_finally"
    /\ pdf' = IF pdf /= "None" /\ exc = "None" THEN "closed" ELSE pdf
    /\ IF exc = "None"
       THEN raw_pages' = pages /\ cleaned_pages' = <<>> /\ pc' = "clean_loop"
       ELSE raw_pages' = raw_pages /\ cleaned_pages' = cleaned_pages /\ pc' = "load_raised"
    /\ UNCHANGED <<text, cfg, cleanVars, stripVars, joinVars, pdf_file, open_calls,
                   pages, result, exc, out_file>>

\* lines 224-227, then the function exits: with the pages (lines 235-236 of the
\* caller) or with the exception in flight
LoadFinally ==
    /\ pc = "load_finally"
    /\ pdf' = IF pdf /= "None" THEN "closed" ELSE pdf
    /\ IF exc = "None"
       THEN raw_pages' = pages /\ cleaned_pages' = <<>> /\ pc' = "clean_loop"
       ELSE raw_pages' = raw_pages /\ cleaned_pages' = cleaned_pages /\ pc' = "load_raised"
    /\ UNCHANGED <<text, cfg, cleanVars, stripVars, joinVars, pdf_file, open_calls,
                   pages, result, exc, out_file>>

\* a mutation of line 235: the caller swallows the error and goes on with no pages
LoadRaisedSwallowed ==
    /\ pc = "load_raised"
    /\ exc' = "None"
    /\ result' = [returned |-> TRUE, pages |-> <<>>]
    /\ pc' = "main_save"
    /\ UNCHANGED <<text, cfg, cleanVars, stripVars, joinVars, pdf_file, pdf, open_calls,
                   pages, raw_pages, cleaned_pages, out_file>>

\* line 235: clean_pdf_to_pages has no handler; neither has main (cli line 32)
LoadRaised ==
    /\ pc = "load_raised"
    /\ pc' = "main_aborted"
    /\ UNCHANGED <<text, cfg, cleanVars, stripVars, joinVars, pipeVars>>

\* a mutation of lines 239-241: the header/footer step is skipped
CleanOneNoStrip(raw, c) == join_wrapped_lines(clean_page_text(raw))

\* lines 239-241
CleanOne(raw, c) ==
    LET safe == clean_page_text(raw)
        struct == remove_headers_footers(safe, c)
    IN  join_wrapped_lines(struct)

\* lines 238-242: one iteration of the loop over raw_pages
CleanPage ==
    /\ pc = "clean_loop"
    /\ Len(cleaned_pages) < Len(raw_pages)
    /\ cleaned_pages' = Append(cleaned_pages, CleanOne(raw_pages[Len(cleaned_pages) + 1], cfg))
    /\ UNCHANGED <<pc, text, cfg, cleanVars, stripVars, joinVars, pdf_file, pdf, open_calls,
                   pages, raw_pages, result, exc, out_file>>

\* line 244, and the assignment of cli line 32
CleanReturn ==
    /\ pc = "clean_loop"
    /\ Len(cleaned_pages) = Len(raw_pages)
    /\ result' = [returned |-> TRUE, pages |-> cleaned_pages]
    /\ pc' = "main_save"
    /\ UNCHANGED <<text, cfg, cleanVars, stripVars, joinVars, pdf_file, pdf, open_calls,
                   pages, raw_pages, cleaned_pages, exc, out_file>>

\* cli line 33 and lines 247-262: each page is written stripped, in order
Save ==
    /\ pc = "main_save"
    /\ out_file' = [exists |-> TRUE,
                    pages |-> [k \in 1..Len(result.pages) |-> strip(result.pages[k])]]
    /\ pc' = "main_done"
    /\ UNCHANGED <<text, cfg, cleanVars, stripVars, joinVars, pdf_file, pdf, open_calls,
                   pages, raw_pages, cleaned_pages, result, exc>>

Next ==
    \/ EnterCleanPdf
    \/ LoadCheckIsFile
    \/ LoadCheckSuffix
    \/ LoadCheckSize
    \/ LoadOpen
    \/ LoadReadPage
    \/ LoadReturn
    \/ LoadFinally
    \/ LoadRaised
    \/ CleanPage
    \/ CleanReturn
    \/ Save

Spec == Init /\ [][Next]_vars

----------------------------------------------------------------------------
(* The properties *)

\* the claims' own reading of "blank", "bullet", "section marker" and
\* "sentence-final", stated without the code's helpers
LineIsBlank(line) == \A k \in 1..Len(line) : line[k] \in Whitespace

LineIsBullet(line) ==
    \E k \in 1..Len(line) :
        /\ line[k] \in bullet_prefixes
        /\ \A m \in 1..(k - 1) : line[m] \in Whitespace

LineIsSectionMarker(line) ==
    LET s == strip(line) IN
    /\ s /= <<>>
    /\ \A k \in 1..Len(s) : s[k] \in DigitChars \cup {"."}
    /\ s[1] \in DigitChars /\ s[Len(s)] \in DigitChars
    /\ \A k \in 1..(Len(s) - 1) : ~(s[k] = "." /\ s[k + 1] = ".")

LineIsMarker(line) == LineIsBullet(line) \/ LineIsSectionMarker(line)

LineEndsSentence(line) ==
    \E k \in 1..Len(line) :
        /\ line[k] \in punct_end
        /\ \A m \in (k + 1)..Len(line) : line[m] \in Whitespace

LineStartsLower(line) ==
    \E k \in 1..Len(line) :
        /\ line[k] \in LowerChars
        /\ \A m \in 1..(k - 1) : line[m] \in Whitespace

\* the indices of the non-blank lines of ls, and the g-th of them
NonBlankIdx(ls) == {k \in 1..Len(ls) : ~LineIsBlank(ls[k])}
NthOf(S, g) == CHOOSE k \in S : Cardinality({m \in S : m < k}) = g - 1

\* how many blank lines of ls lie after exactly g non-blank lines
BlanksInGap(ls, g) ==
    Cardinality({k \in 1..Len(ls) :
        LineIsBlank(ls[k]) /\ Cardinality({m \in NonBlankIdx(ls) : m < k}) = g})

\* C1: clean_page_text is idempotent: applied to its own output it returns
\* that output unchanged, for every page text
C1_Idempotent == pc = "clean_twice" => recleaned = cleaned

C1_Witness ==
    /\ pc = "clean_twice"
    /\ \E k \in 1..Len(text) : text[k] = "\r"
    /\ \E k \in 1..Len(text) : text[k] = "\t"
    /\ \E k \in 1..Len(text) : text[k] = "a"
    /\ cleaned /= text
    /\ recleaned = cleaned

\* C6: every run of blank lines of the page (one line or more) comes out as
\* exactly one blank line at that position, the non-blank lines come out
\* right-trimmed and in order, and the output never has two blank lines in a row
C6_BlankCollapse ==
    pc \in {"clean_once", "clean_twice"} =>
        LET inl == split(NormalizeEndings(text))
            outl == split(cleaned)
            n == Cardinality(NonBlankIdx(inl))
        IN  /\ Cardinality(NonBlankIdx(outl)) = n
            /\ \A g \in 1..n :
                  outl[NthOf(NonBlankIdx(outl), g)] = rstrip(inl[NthOf(NonBlankIdx(inl), g)])
            /\ \A g \in 0..n :
                  BlanksInGap(outl, g) = IF BlanksInGap(inl, g) >= 1 THEN 1 ELSE 0
            /\ \A k \in 1..(Len(outl) - 1) : ~(LineIsBlank(outl[k]) /\ LineIsBlank(outl[k + 1]))

C6_Witness ==
    /\ pc = "clean_once"
    /\ text = <<"a", "\n", "\n", "\n", "\n", "a">>
    /\ cleaned = <<"a", "\n", "\n", "a">>

\* C2: the line at 0-based index idx of an n-line page is removed exactly when
\* (idx < header_scan_lines or idx >= n - footer_scan_lines) and the classifier
\* accepts it; the other lines survive in their original order
C2_ZoneGating ==
    pc = "strip_done" =>
        LET ls == split(text)
            n == Len(ls)
            kept == {k \in 1..n :
                        ~( /\ (k - 1 < cfg.header_scan_lines
                               \/ k - 1 >= n - cfg.footer_scan_lines)
                           /\ is_header_or_footer(ls[k], cfg) )}
        IN  stripped = join([j \in 1..Cardinality(kept) |-> ls[NthOf(kept, j)]])

C2_Witness ==
    /\ pc = "strip_done"
    /\ split(text) = << <<"7">>, <<"a","b">>, <<"F","G","2","2","/","5">>, <<"7">> >>
    /\ cfg.header_scan_lines = 2 /\ cfg.footer_scan_lines = 1
    /\ split(stripped) = << <<"a","b">>, <<"F","G","2","2","/","5">> >>

\* the cursor is on a line to which the hyphenation rule applies
C3_Case ==
    /\ pc = "join_loop"
    /\ i + 1 < Len(lines)
    /\ LET c == lines[i + 1]
           n == lines[i + 2]
       IN  /\ ~LineIsBlank(c) /\ ~LineIsBlank(n)
           /\ ~LineIsMarker(c) /\ ~LineIsMarker(n)
           /\ ~(Len(strip(c)) <= 40 /\ istitle(strip(c)))
           /\ ~LineEndsSentence(c)
           /\ rstrip(c)[Len(rstrip(c))] = "-"
           /\ LineStartsLower(n)

\* C3: with the cursor on such a line the loop appends exactly one line, the
\* current line without its trailing hyphen directly followed by the next line
\* left-trimmed, and advances past both; "informa-", "tion happened." become
\* "information happened."
C3_HyphenRepair ==
    /\ [][C3_Case =>
            /\ out' = Append(out, SubSeq(rstrip(lines[i + 1]), 1, Len(rstrip(lines[i + 1])) - 1)
                                   \o lstrip(lines[i + 2]))
            /\ i' = i + 2]_vars
    /\ [](pc = "join_done"
            /\ lines = << <<"i","n","f","o","r","m","a","-">>,
                          <<"t","i","o","n"," ","h","a","p","p","e","n","e","d",".">> >>
          => out = << <<"i","n","f","o","r","m","a","t","i","o","n"," ",
                        "h","a","p","p","e","n","e","d",".">> >>)

C3_Witness ==
    /\ pc = "join_done"
    /\ lines = << <<"i","n","f","o","r","m","a","-">>,
                  <<"t","i","o","n"," ","h","a","p","p","e","n","e","d",".">> >>
    /\ joined = <<"i","n","f","o","r","m","a","t","i","o","n"," ",
                  "h","a","p","p","e","n","e","d",".">>

\* C4: a bullet or section-marker line is never part of a two-line output line,
\* neither as its first nor as its second half, and is emitted as an output
\* line of its own
C4_MarkerIsolation ==
    /\ \A k \in 1..Len(blocks) :
          LET a == blocks[k][1]
              b == blocks[k][2]
          IN  /\ a < b => ~LineIsMarker(lines[a + 1]) /\ ~LineIsMarker(lines[b + 1])
              /\ a = b /\ LineIsMarker(lines[a + 1]) => out[k] = rstrip(lines[a + 1])
    /\ pc = "join_done" =>
          \A idx \in 0..(Len(lines) - 1) :
              LineIsMarker(lines[idx + 1]) =>
                  \E k \in 1..Len(blocks) : blocks[k] = <<idx, idx>>

C4_Witness ==
    /\ pc = "join_done"
    /\ lines = << <<"a","n","d"," ","s","o">>, <<" ","-"," ","i","t">>,
                  <<"a","n","d"," ","s","o">> >>
    /\ out = << <<"a","n","d"," ","s","o">>, <<" ","-"," ","i","t">>,
                <<"a","n","d"," ","s","o">> >>

\* C5: a line whose right-trimmed text ends in sentence-final punctuation is
\* never the first half of a two-line output line, wherever it stands
C5_SentenceFinal ==
    \A k \in 1..Len(blocks) :
        blocks[k][1] < blocks[k][2] => ~LineEndsSentence(lines[blocks[k][1] + 1])

C5_Witness ==
    /\ pc = "join_done"
    /\ \E idx \in 0..(Len(lines) - 2) :
          /\ LineEndsSentence(lines[idx + 1])
          /\ LineStartsLower(lines[idx + 2])
          /\ idx > 0
          /\ \E k \in 1..Len(blocks) : blocks[k] = <<idx - 1, idx>>
          /\ \E k \in 1..Len(blocks) : blocks[k] = <<idx + 1, idx + 1>>

\* the output built so far is an ordered partition of the lines passed so far
\* into blocks of one line or of two adjacent lines, each output line built
\* from its block and nothing else
C10_Partition ==
    /\ Len(out) = Len(blocks)
    /\ \A k \in 1..Len(blocks) :
          LET a == blocks[k][1]
              b == blocks[k][2]
          IN  /\ a = (IF k = 1 THEN 0 ELSE blocks[k - 1][2] + 1)
              /\ b \in {a, a + 1}
              /\ b <= Len(lines) - 1
              /\ a = b => out[k] = IF LineIsBlank(lines[a + 1]) THEN <<>>
                                   ELSE rstrip(lines[a + 1])
              /\ a < b =>
                    LET c == rstrip(lines[a + 1]) IN
                    out[k] \in { c \o <<" ">> \o lstrip(lines[b + 1]),
                                 SubSeq(c, 1, Len(c) - 1) \o lstrip(lines[b + 1]) }
    /\ pc = "join_done" =>
          /\ blocks /= <<>>
          /\ blocks[Len(blocks)][2] = Len(lines) - 1
          /\ joined = join(out)
          /\ lines = << <<"a","n","d"," ","s","o">>, <<"a","n","d"," ","s","o">>,
                        <<"a","n","d"," ","s","o">> >>
             => out = << <<"a","n","d"," ","s","o"," ","a","n","d"," ","s","o">>,
                         <<"a","n","d"," ","s","o">> >>

\* C10: the loop terminates, and its output is an ordered partition of the
\* input lines into blocks of one or two adjacent lines; a chain of three
\* continuation lines yields two output lines
C10_GreedySinglePass == []C10_Partition /\ <>(pc = "join_done")

C10_Witness ==
    /\ pc = "join_done"
    /\ lines = << <<"a","n","d"," ","s","o">>, <<"a","n","d"," ","s","o">>,
                  <<"a","n","d"," ","s","o">> >>
    /\ blocks = << <<0, 1>>, <<2, 2>> >>
    /\ Len(out) = 2

\* the error the Page Source raises for a file, by the four kinds in the order
\* they are tested ("None": the document is read without error)
ExpectedError(f) ==
    IF ~f.is_file THEN "FileNotFoundError"
    ELSE IF f.suffix \notin { <<".","p","d","f">>, <<".","P","D","F">> }
         THEN "ValueError: expected a .pdf file"
    ELSE IF f.st_size = 0 THEN "ValueError: PDF is empty"
    ELSE IF ~f.opens THEN "FileDataError"
    ELSE IF f.bad_page > 0 THEN "RuntimeError: get_text"
    ELSE "None"

\* C7: the run returns one cleaned page per raw page, in page order, page j
\* being join_wrapped_lines(remove_headers_footers(clean_page_text(raw j), cfg));
\* the scenario page with header_scan_lines=2, footer_scan_lines=1 cleans to
\* the lines "", "This is information about the policy."
C7_Pipeline ==
    /\ pc = "clean_loop" =>
          /\ raw_pages = pdf_file.doc
          /\ Len(cleaned_pages) <= Len(raw_pages)
          /\ \A j \in 1..Len(cleaned_pages) :
                cleaned_pages[j] =
                    join_wrapped_lines(remove_headers_footers(clean_page_text(raw_pages[j]), cfg))
    /\ pc \in {"main_save", "main_done"} =>
          /\ result.returned
          /\ Len(result.pages) = Len(pdf_file.doc)
          /\ \A j \in 1..Len(result.pages) :
                /\ result.pages[j] =
                      join_wrapped_lines(
                          remove_headers_footers(clean_page_text(pdf_file.doc[j]), cfg))
                /\ ( /\ pdf_file.doc[j] = ScenarioPage
                     /\ cfg.header_scan_lines = 2 /\ cfg.footer_scan_lines = 1 )
                   => split(result.pages[j]) =
                        << <<>>,
                           <<"T","h","i","s"," ","i","s"," ","i","n","f","o","r","m","a",
                             "t","i","o","n"," ","a","b","o","u","t"," ","t","h","e"," ",
                             "p","o","l","i","c","y",".">> >>

C7_Witness ==
    /\ pc = "main_done"
    /\ Len(pdf_file.doc) = 2
    /\ pdf_file.doc[1] /= ScenarioPage
    /\ pdf_file.doc[2] = ScenarioPage
    /\ cfg = CleanConfig(2, 1)
    /\ split(result.pages[2]) =
          << <<>>,
             <<"T","h","i","s"," ","i","s"," ","i","n","f","o","r","m","a",
               "t","i","o","n"," ","a","b","o","u","t"," ","t","h","e"," ",
               "p","o","l","i","c","y",".">> >>

\* C8: when the Page Source raises, the error is the one the file's fault
\* calls for and stays that error, nothing is returned, the sink is never
\* reached and no output file exists; the three path checks fail before
\* fitz.open is called
C8_NoPartialOutput ==
    /\ exc /= "None" =>
          /\ exc = ExpectedError(pdf_file)
          /\ ~result.returned
          /\ cleaned_pages = <<>>
          /\ ~out_file.exists
          /\ pc \in {"load_finally", "load_raised", "main_aborted"}
    /\ exc \in {"FileNotFoundError", "ValueError: expected a .pdf file",
                "ValueError: PDF is empty"} => open_calls = 0 /\ pdf = "None"
    /\ (pc \in {"main_done", "main_aborted"} /\ ExpectedError(pdf_file) /= "None") =>
          /\ pc = "main_aborted"
          /\ exc = ExpectedError(pdf_file)
          /\ ~out_file.exists

C8_Witness ==
    /\ pc = "main_aborted"
    /\ exc = "ValueError: PDF is empty"
    /\ pdf_file.is_file /\ pdf_file.st_size = 0
    /\ open_calls = 0
    /\ ~out_file.exists

\* C9: once load_pdf_text_by_page has exited, by return or by exception, the
\* handle is not open: it is closed if the document was opened, and there is
\* none if a path check or the opening failed
C9_ScopedHandle ==
    /\ pdf = "open" => pc \in {"load_read", "load_finally"}
    /\ pc \in {"load_raised", "clean_loop", "main_save", "main_done", "main_aborted"} =>
          pdf = IF ExpectedError(pdf_file) \in {"None", "RuntimeError: get_text"}
                THEN "closed" ELSE "None"

C9_Witness ==
    /\ pc = "main_aborted"
    /\ exc = "RuntimeError: get_text"
    /\ pages /= <<>>
    /\ pdf = "closed"

====
